---- MODULE Spec2Model ----
(***************************************************************************)
(* Stop-loss state machine (src/risk/stop_loss_manager.py) and the moving  *)
(* average strategy that drives it (src/strategies/*.py).                  *)
(*                                                                         *)
(* Arithmetic.  The program computes on floats; the model computes on     *)
(* exact fixed-point numbers.  A price or an amount of quote currency is  *)
(* an integer number of thousandths (1000.0 is 1000000), a percentage is  *)
(* an integer number of tenths of a percent (1.5 is 15), so that          *)
(* x * (pct / 100) is (x * pct) \div 1000 and is exact for every price    *)
(* that is a whole number of units.  A quotient of two floats is kept as  *)
(* a reduced fraction [num, den].                                         *)
(***************************************************************************)
EXTENDS Integers, Sequences, FiniteSets, Bags, TLC

VARIABLES
    config,             \* StopLossManager.config (immutable after __init__)
    position,           \* StopLossManager.position: {} or the tracked dict
    highest_price,      \* StopLossManager.highest_price
    stop_loss_price,    \* StopLossManager.stop_loss_price
    trailing_active,    \* StopLossManager.trailing_active
    strategy_position,  \* BaseStrategy.position: None or the open position
    position_size_pct,  \* SimpleMovingAverageStrategy.position_size_pct, in
                        \* thousandths (0.1 is 100)
    status,             \* what the latest update() of this tracking returned
    ret,                \* what the latest other call returned (or raised)
    max_seen,           \* history: max of the entry and the prices given to update
    triggered_at,       \* history: the stop price returned by the first update of
                        \* this tracking that reported stop_triggered, or None
    paper_balance,      \* KrakenClient.paper_balance, by currency
    paper_orders,       \* KrakenClient.paper_orders
    pending,            \* the create_order calls suspended at fetch_ticker
    state_file          \* trading_state.json: None or what was last saved

vars == <<config, position, highest_price, stop_loss_price, trailing_active,
          strategy_position, position_size_pct, status, ret, max_seen,
          triggered_at, paper_balance, paper_orders, pending, state_file>>

client_vars == <<paper_balance, paper_orders, pending, state_file>>

\* What no operation of the manager or of the strategy changes.
fixed_vars == <<config, position_size_pct, client_vars>>

history_vars == <<max_seen, triggered_at>>

mgr_vars == <<position, highest_price, stop_loss_price, trailing_active>>

-----------------------------------------------------------------------------
(* Values *)

\* Optional[float]: None, or a value.
None == <<>>
Some(x) == <<x>>
Val(o) == o[1]

\* A whole number of currency units as thousandths.
P(units) == units * 1000

\* x * (pct / 100), pct in tenths of a percent.
Pct(x, pct) == (x * pct) \div 1000

Max(a, b) == IF a >= b THEN a ELSE b

Abs(x) == IF x < 0 THEN -x ELSE x

Sgn(x) == IF x > 0 THEN 1 ELSE IF x < 0 THEN -1 ELSE 0

RECURSIVE Gcd(_, _)
Gcd(a, b) == IF b = 0 THEN a ELSE Gcd(b, a % b)

\* The float n / d as a reduced fraction; den = 0 stands for the
\* ZeroDivisionError of a division by 0.0.
Frac(n, d) ==
    IF d = 0 THEN [num |-> n, den |-> 0]
    ELSE LET g == Gcd(Abs(n), Abs(d))
         IN  [num |-> (n * Sgn(d)) \div g, den |-> Abs(d) \div g]

Zero == [num |-> 0, den |-> 1]

\* The dict a position is passed as ('price' is the only key that is read).
EmptyDict == <<>>
Dict(price) == <<price>>
PriceOf(d) == d[1]

-----------------------------------------------------------------------------
(* Inputs *)

StopLossConfig(fixed, max_loss, trailing, activation) ==
    [fixed_stop_loss_pct |-> fixed, max_loss_pct |-> max_loss,
     trailing_stop_loss_pct |-> trailing, trailing_activation_pct |-> activation]

\* The configurations explored: the tests' (2.0, 2.0, 1.5, 1.0), fixed only,
\* one trailing field without the other, a trailing percentage wider than the
\* fixed one, and a zero and a negative fixed percentage (not validated).
Configs ==
    { StopLossConfig(20, 20, Some(15), Some(10)),
      StopLossConfig(20, 20, None, None),
      StopLossConfig(20, 20, Some(15), None),
      StopLossConfig(20, 10, None, Some(10)),
      StopLossConfig(20, 20, Some(50), Some(10)),
      StopLossConfig(0, 20, Some(15), Some(10)),
      StopLossConfig(-10, 20, None, None) }

Entries == { P(1000), P(1010) }

UpdatePrices == { P(970), P(980), P(1004), P(1010), P(1015), P(1020) }

Balances == { 0, P(10000) }

SizingPrices == { 0, P(1000) }

\* max_position_size of the strategy's configuration: the tests' 0.1, and 1.0.
SizePcts == { 100, 1000 }

-----------------------------------------------------------------------------
(* StopLossManager *)

\* _calculate_fixed_stop_loss(price) with a price (lines 29-31).
calculate_fixed_stop_loss(cfg, entry_price) ==
    LET stop_distance == Pct(entry_price, cfg.fixed_stop_loss_pct)
    IN  entry_price - stop_distance

\* Mutant of calculate_trailing_stop_loss: the fixed percentage is used.
calculate_trailing_stop_loss_FixedPct(cfg, highest) ==
    highest - Pct(highest, cfg.fixed_stop_loss_pct)

\* Mutant of calculate_trailing_stop_loss: the trail distance left out.
calculate_trailing_stop_loss_AtHighest(cfg, highest) == highest

\* _calculate_trailing_stop_loss (lines 38-39); the caller has checked that
\* trailing_stop_loss_pct is configured.
calculate_trailing_stop_loss(cfg, highest) ==
    LET trail_distance == Pct(highest, Val(cfg.trailing_stop_loss_pct))
    IN  highest - trail_distance

\* Mutant of HighestAfter: the comparison of line 65 left out.
HighestAfter_Latest(highest, current_price) == current_price

\* Line 65-66: the highest price after update(current_price).
HighestAfter(highest, current_price) ==
    IF current_price > highest THEN current_price ELSE highest

\* Mutant of ProfitReached: the threshold itself does not activate.
ProfitReached_Strict(cfg, entry, current_price) ==
    (current_price - entry) * 1000 > Val(cfg.trailing_activation_pct) * entry

\* Lines 73-76: profit_pct >= trailing_activation_pct, for an entry > 0:
\* ((current - entry) / entry) * 100 >= a.
ProfitReached(cfg, entry, current_price) ==
    (current_price - entry) * 1000 >= Val(cfg.trailing_activation_pct) * entry

\* Mutant of TrailingAfter: a missing activation percentage counts as 0.
TrailingAfter_NoActivationPct(cfg, entry, highest, active, current_price) ==
    IF /\ current_price > highest
       /\ ~active
       /\ cfg.trailing_stop_loss_pct # None
       /\ \/ cfg.trailing_activation_pct = None
          \/ ProfitReached(cfg, entry, current_price)
    THEN TRUE
    ELSE active

\* Mutant of TrailingAfter: the trailing percentage is not looked at.
TrailingAfter_NoTrailingPct(cfg, entry, highest, active, current_price) ==
    IF /\ current_price > highest
       /\ ~active
       /\ cfg.trailing_activation_pct # None
       /\ ProfitReached(cfg, entry, current_price)
    THEN TRUE
    ELSE active

\* Mutant of TrailingAfter: the flag follows the current profit instead of
\* latching.
TrailingAfter_NoLatch(cfg, entry, highest, active, current_price) ==
    /\ cfg.trailing_stop_loss_pct # None
    /\ cfg.trailing_activation_pct # None
    /\ ProfitReached(cfg, entry, current_price)

\* Lines 65-77: trailing_active after the price check of update.
TrailingAfter(cfg, entry, highest, active, current_price) ==
    IF /\ current_price > highest
       /\ ~active
       /\ cfg.trailing_stop_loss_pct # None
       /\ cfg.trailing_activation_pct # None
       /\ ProfitReached(cfg, entry, current_price)
    THEN TRUE
    ELSE active

\* Mutant of AdoptStop: the comparison of line 83 left out.
AdoptStop_Always(stop, new_stop) == new_stop

\* Mutant of AdoptStop: the stop computed at activation is never adopted.
AdoptStop_Never(stop, new_stop) == stop

\* Lines 83-84: the new stop is adopted only if it is higher.
AdoptStop(stop, new_stop) ==
    IF new_stop > stop THEN new_stop ELSE stop

\* Mutant of StopTriggered: a price equal to the stop does not trigger.
StopTriggered_Below(current_price, stop) == current_price < stop

\* Line 88.
StopTriggered(current_price, stop) == current_price <= stop

NoStatus ==
    [valid |-> FALSE, tracked |-> FALSE, stop_price |-> 0, stop_triggered |-> FALSE,
     trailing_active |-> FALSE, highest_price |-> 0, error |-> FALSE]

\* Mutant of NeutralUpdate: the highest price is recorded before the position
\* is looked at.
NeutralUpdate_TrackHighest(m, current_price) ==
    [m |-> [m EXCEPT !.highest_price = HighestAfter(m.highest_price, current_price)],
     status |-> [NoStatus EXCEPT !.valid = TRUE]]

\* Lines 61-62: without a position, update returns the neutral dict and
\* touches nothing.
NeutralUpdate(m, current_price) ==
    [m |-> m, status |-> [NoStatus EXCEPT !.valid = TRUE]]

\* Mutant of UpdateOf: the trailing stop is computed from the highest price
\* before this call.
UpdateOf_StaleHighest(cfg, m, current_price) ==
    IF m.position = EmptyDict
    THEN NeutralUpdate(m, current_price)
    ELSE
      LET h == HighestAfter(m.highest_price, current_price)
          t == TrailingAfter(cfg, PriceOf(m.position), m.highest_price,
                             m.trailing_active, current_price)
          raises == t /\ cfg.trailing_stop_loss_pct = None
          s == IF t /\ ~raises
               THEN AdoptStop(m.stop_loss_price, calculate_trailing_stop_loss(cfg, m.highest_price))
               ELSE m.stop_loss_price
          m2 == [position |-> m.position, highest_price |-> h,
                 stop_loss_price |-> s, trailing_active |-> t]
      IN  IF raises
          THEN [m |-> m2, status |-> [NoStatus EXCEPT !.valid = TRUE, !.error = TRUE]]
          ELSE [m |-> m2,
                status |-> [valid |-> TRUE, tracked |-> TRUE, stop_price |-> s,
                            stop_triggered |-> StopTriggered(current_price, s),
                            trailing_active |-> t, highest_price |-> h,
                            error |-> FALSE]]

\* update(current_price) on the manager state m = [position, highest_price,
\* stop_loss_price, trailing_active]: the state after and the dict returned.
\* error: _calculate_trailing_stop_loss raised ValueError (line 36).
UpdateOf(cfg, m, current_price) ==
    IF m.position = EmptyDict
    THEN NeutralUpdate(m, current_price)
    ELSE
      LET h == HighestAfter(m.highest_price, current_price)
          t == TrailingAfter(cfg, PriceOf(m.position), m.highest_price,
                             m.trailing_active, current_price)
          raises == t /\ cfg.trailing_stop_loss_pct = None
          s == IF t /\ ~raises
               THEN AdoptStop(m.stop_loss_price, calculate_trailing_stop_loss(cfg, h))
               ELSE m.stop_loss_price
          m2 == [position |-> m.position, highest_price |-> h,
                 stop_loss_price |-> s, trailing_active |-> t]
      IN  IF raises
          THEN [m |-> m2, status |-> [NoStatus EXCEPT !.valid = TRUE, !.error = TRUE]]
          ELSE [m |-> m2,
                status |-> [valid |-> TRUE, tracked |-> TRUE, stop_price |-> s,
                            stop_triggered |-> StopTriggered(current_price, s),
                            trailing_active |-> t, highest_price |-> h,
                            error |-> FALSE]]

\* Mutant of StartOf: line 51 left out, trailing_active is kept.
StartOf_KeepTrailing(cfg, pos) ==
    [position |-> pos,
     highest_price |-> PriceOf(pos),
     stop_loss_price |-> calculate_fixed_stop_loss(cfg, PriceOf(pos)),
     trailing_active |-> trailing_active]

\* start_position_tracking(pos) for a dict with a price: the state after; the
\* value returned is its stop_loss_price.
StartOf(cfg, pos) ==
    [position |-> pos,
     highest_price |-> PriceOf(pos),
     stop_loss_price |-> calculate_fixed_stop_loss(cfg, PriceOf(pos)),
     trailing_active |-> FALSE]

\* start_position_tracking({}): line 46 stores the empty dict, then
\* position['price'] of line 47 raises KeyError, before the guard of line 26
\* is reached.
StartFailed(m) == [m EXCEPT !.position = EmptyDict]

\* _calculate_fixed_stop_loss(price) (lines 26-31), price None or Some(p):
\* the value returned, or the ValueError of line 27.
FixedStopLoss(cfg, m, price) ==
    IF price = None /\ m.position = EmptyDict
    THEN [error |-> "ValueError", value |-> 0]
    ELSE [error |-> "",
          value |-> calculate_fixed_stop_loss(cfg,
                      IF price # None THEN Val(price) ELSE PriceOf(m.position))]

\* Mutant of MaxPositionSize: the loss budget is divided by the stop price
\* instead of the distance to it.
MaxPositionSize_ByStopPrice(cfg, balance, current_price) ==
    LET max_loss == Pct(balance, cfg.max_loss_pct)
        stop_price == calculate_fixed_stop_loss(cfg, current_price)
        price_to_stop == current_price - stop_price
    IN  IF price_to_stop <= 0
        THEN [size |-> Zero, divided |-> FALSE]
        ELSE [size |-> Frac(max_loss, stop_price), divided |-> TRUE]

\* Mutant of MaxPositionSize: the guard of line 105 is < instead of <=.
MaxPositionSize_StrictGuard(cfg, balance, current_price) ==
    LET max_loss == Pct(balance, cfg.max_loss_pct)
        stop_price == calculate_fixed_stop_loss(cfg, current_price)
        price_to_stop == current_price - stop_price
    IN  IF price_to_stop < 0
        THEN [size |-> Zero, divided |-> FALSE]
        ELSE [size |-> Frac(max_loss, price_to_stop), divided |-> TRUE]

\* Mutant of MaxPositionSize: with a position tracked, the distance is taken
\* to its stop price.
MaxPositionSize_FromTrackedStop(cfg, balance, current_price) ==
    LET max_loss == Pct(balance, cfg.max_loss_pct)
        stop_price == IF position # EmptyDict THEN stop_loss_price
                      ELSE calculate_fixed_stop_loss(cfg, current_price)
        price_to_stop == current_price - stop_price
    IN  IF price_to_stop <= 0
        THEN [size |-> Zero, divided |-> FALSE]
        ELSE [size |-> Frac(max_loss, price_to_stop), divided |-> TRUE]

\* calculate_max_position_size(balance, current_price) (lines 101-108):
\* the size, and whether the division of line 108 was carried out.
MaxPositionSize(cfg, balance, current_price) ==
    LET max_loss == Pct(balance, cfg.max_loss_pct)
        stop_price == calculate_fixed_stop_loss(cfg, current_price)
        price_to_stop == current_price - stop_price
    IN  IF price_to_stop <= 0
        THEN [size |-> Zero, divided |-> FALSE]
        ELSE [size |-> Frac(max_loss, price_to_stop), divided |-> TRUE]

Mgr == [position |-> position, highest_price |-> highest_price,
        stop_loss_price |-> stop_loss_price, trailing_active |-> trailing_active]

SetMgr(m) ==
    /\ position' = m.position
    /\ highest_price' = m.highest_price
    /\ stop_loss_price' = m.stop_loss_price
    /\ trailing_active' = m.trailing_active

NoRet == [op |-> "none"]

\* The paper balance the client is constructed with, in whole units.
InitialBalance == [USD |-> 100000, BTC |-> 0]

Init ==
    /\ config \in Configs
    /\ position_size_pct \in SizePcts
    /\ position_size_pct # 100 => config.trailing_stop_loss_pct = None
    /\ position = EmptyDict
    /\ highest_price = 0
    /\ stop_loss_price = 0
    /\ trailing_active = FALSE
    /\ strategy_position = None
    /\ status = NoStatus
    /\ ret = NoRet
    /\ max_seen = 0
    /\ triggered_at = None
    /\ paper_balance = InitialBalance
    /\ paper_orders = << >>
    /\ pending = EmptyBag
    /\ state_file = None

\* History: the call before this update(current_price) was an update of the
\* same tracked position at the same price.
RepeatsUpdate(current_price) ==
    /\ position # EmptyDict
    /\ status.tracked
    /\ \/ ret.op = "update"
       \/ ret.op = "generate_signals" /\ ret.error = "" /\ ret.stop_info
       \/ ret.op = "should_exit" /\ ret.error = "" /\ ret.updated
    /\ ret.price = current_price

\* The history variables after a call of update(current_price) that returned st.
HistoryAfterUpdate(st, current_price) ==
    /\ max_seen' = IF position = EmptyDict THEN max_seen
                   ELSE Max(max_seen, current_price)
    /\ triggered_at' = IF triggered_at = None /\ st.tracked /\ st.stop_triggered
                       THEN Some(st.stop_price)
                       ELSE triggered_at

\* The history variables after start_position_tracking at entry price.
HistoryAfterStart(price) ==
    /\ max_seen' = price
    /\ triggered_at' = None

start_position_tracking(pos) ==
    IF pos = EmptyDict
    THEN /\ SetMgr(StartFailed(Mgr))
         /\ status' = NoStatus
         /\ ret' = [op |-> "start_position_tracking", error |-> "KeyError",
                    was_trailing |-> trailing_active]
         /\ UNCHANGED <<fixed_vars, strategy_position, history_vars>>
    ELSE /\ SetMgr(StartOf(config, pos))
         /\ status' = NoStatus
         /\ HistoryAfterStart(PriceOf(pos))
         /\ ret' = [op |-> "start_position_tracking", error |-> "",
                    value |-> StartOf(config, pos).stop_loss_price,
                    was_trailing |-> trailing_active]
         /\ UNCHANGED <<fixed_vars, strategy_position>>

\* A direct call of _calculate_fixed_stop_loss(price), price None or Some(p).
fixed_stop_loss(price) ==
    LET r == FixedStopLoss(config, Mgr, price)
    IN  /\ ret' = [op |-> "_calculate_fixed_stop_loss", price |-> price,
                   tracked |-> position # EmptyDict,
                   error |-> r.error, value |-> r.value]
        /\ UNCHANGED <<fixed_vars, mgr_vars, strategy_position, status, history_vars>>

update(current_price) ==
    LET u == UpdateOf(config, Mgr, current_price)
    IN  /\ SetMgr(u.m)
        /\ status' = u.status
        /\ HistoryAfterUpdate(u.status, current_price)
        /\ ret' = [op |-> "update", price |-> current_price,
                   again |-> RepeatsUpdate(current_price)]
        /\ UNCHANGED <<fixed_vars, strategy_position>>

calculate_max_position_size(balance, current_price) ==
    LET r == MaxPositionSize(config, balance, current_price)
    IN  /\ ret' = [op |-> "calculate_max_position_size", balance |-> balance,
                   price |-> current_price, size |-> r.size, divided |-> r.divided]
        /\ UNCHANGED <<fixed_vars, mgr_vars, strategy_position, status, history_vars>>

-----------------------------------------------------------------------------
(* SimpleMovingAverageStrategy.  A bar is its close; market_data is the     *)
(* sequence of closes, oldest first (rows 1..Len, row i is df.iloc[i-1]).   *)

short_window == 2

long_window == 3

MaxBars == 4

\* The closes a bar can have: two below the stops reached and one above.
CloseSeq == << P(900), P(970), P(1020) >>

NumCloses == Len(CloseSeq)

RECURSIVE Power(_, _)
Power(b, n) == IF n = 0 THEN 1 ELSE b * Power(b, n - 1)

\* The inputs of n bars are numbered 0 .. NumCloses^n - 1: the j-th one has,
\* as its i-th close, the i-th digit of j in base NumCloses.
InputsOfLen(n) == 0..(Power(NumCloses, n) - 1)

BarsOf(n, j) ==
    [i \in 1..n |-> CloseSeq[((j \div Power(NumCloses, i - 1)) % NumCloses) + 1]]

\* market_data: every sequence of at most MaxBars bars.
MarketData == [n \in 0..MaxBars |-> [j \in InputsOfLen(n) |-> BarsOf(n, j)]]

\* close[i-w+1] + ... + close[i]
RECURSIVE RollingSum(_, _, _)
RollingSum(c, i, w) ==
    IF w = 0 THEN 0 ELSE c[i] + RollingSum(c, i - 1, w - 1)

\* rolling(window=w).mean() is NaN before the window fills (lines 50-51).
MaDefined(i, w) == i >= w

\* ma_diff = short_ma - long_ma (line 57), NaN where either average is.
MaDiffDefined(i) == MaDefined(i, short_window) /\ MaDefined(i, long_window)

\* short_window * long_window * ma_diff[i]: the same sign as ma_diff[i].
MaDiff(c, i) ==
    long_window * RollingSum(c, i, short_window)
      - short_window * RollingSum(c, i, long_window)

\* pct_change(periods=short_window) (line 54) is NaN on the first rows.
TrendDefined(i) == i > short_window

\* close[i] - close[i - short_window]: the same sign as trend[i] (closes > 0).
TrendDelta(c, i) == c[i] - c[i - short_window]

\* abs(trend) > 0.01 (line 93), on the doubles pct_change produces (line 54):
\* trend is fl(close[i] / close[i-w]) - 1.  A change of exactly 1% gives
\* fl(1.01) - 1 = 1 - fl(0.99) = 0.010000000000000009, which is above the
\* double 0.01, so the comparison holds from 1% on; every other change is
\* further from 1% than the rounding.
StrongTrend(c, i) == Abs(TrendDelta(c, i)) * 100 >= c[i - short_window]

\* Mutant of Crossover: a bar without a defined previous ma_diff counts as a
\* change of sign.
Crossover_NoPrevious(c, i) ==
    IF /\ MaDiffDefined(i)
       /\ \/ i < 2
          \/ ~MaDiffDefined(i - 1)
          \/ Sgn(MaDiff(c, i)) * Sgn(MaDiff(c, i - 1)) < 0
    THEN Sgn(MaDiff(c, i))
    ELSE 0

\* Lines 58-62: ma_diff * ma_diff.shift(1) < 0 is False where either factor
\* is NaN (the first row, and the rows before the long window fills).
Crossover(c, i) ==
    IF /\ i >= 2
       /\ MaDiffDefined(i)
       /\ MaDiffDefined(i - 1)
       /\ Sgn(MaDiff(c, i)) * Sgn(MaDiff(c, i - 1)) < 0
    THEN Sgn(MaDiff(c, i))
    ELSE 0

\* The rows df.dropna() keeps (line 80): every indicator defined.
FullRows(c) == { i \in 1..Len(c) : MaDiffDefined(i) /\ TrendDefined(i) }

LastRow(c) == CHOOSE i \in FullRows(c) : \A j \in FullRows(c) : j <= i

\* Lines 87-101, on row i.
Decide(c, i) ==
    IF Crossover(c, i) > 0 THEN "buy"
    ELSE IF Crossover(c, i) < 0 THEN "sell"
    ELSE IF StrongTrend(c, i) /\ TrendDelta(c, i) > 0 /\ MaDiff(c, i) > 0 THEN "buy"
    ELSE IF StrongTrend(c, i) /\ TrendDelta(c, i) < 0 /\ MaDiff(c, i) < 0 THEN "sell"
    ELSE "hold"

\* _detect_signal(df) (lines 76-101).
detect_signal(c) ==
    IF Len(c) < long_window + 1 THEN "hold"
    ELSE IF FullRows(c) = {} THEN "hold"
    ELSE Decide(c, LastRow(c))

\* _detect_signal on every input explored, tabulated once.
Detected ==
    [n \in 0..MaxBars |-> [j \in InputsOfLen(n) |-> detect_signal(MarketData[n][j])]]

\* Mutant of Override: a triggered stop replaces only a hold.
Override_HoldOnly(signal_type, triggered) ==
    IF triggered /\ signal_type = "hold" THEN "sell" ELSE signal_type

\* Lines 126-127: a triggered stop overrides the decision.
Override(signal_type, triggered) ==
    IF triggered THEN "sell" ELSE signal_type

\* Mutant of InsufficientData: one bar fewer is accepted.
InsufficientData_LongWindow(n) == n < long_window

\* Line 113: len(market_data) < self.long_window + 1.
InsufficientData(n) == n < long_window + 1

\* generate_signals(market_data) (lines 113-150), market_data the j-th input
\* of n bars.
generate_signals(n, j) ==
  LET market_data == MarketData[n][j] IN
    IF InsufficientData(Len(market_data))
    THEN /\ ret' = [op |-> "generate_signals", n |-> n, error |-> "ValueError"]
         /\ UNCHANGED <<fixed_vars, mgr_vars, strategy_position, status, history_vars>>
    ELSE
      LET signal_type == Detected[n][j]
          current_price == market_data[Len(market_data)]
          u == UpdateOf(config, Mgr, current_price)
      IN  IF strategy_position = None
          THEN /\ ret' = [op |-> "generate_signals", n |-> n, error |-> "",
                          type |-> signal_type,
                          decision |-> signal_type, price |-> current_price,
                          stop_info |-> FALSE]
               /\ UNCHANGED <<fixed_vars, mgr_vars, strategy_position, status, history_vars>>
          ELSE /\ SetMgr(u.m)
               /\ status' = u.status
               /\ HistoryAfterUpdate(u.status, current_price)
               /\ ret' = IF u.status.error
                         THEN [op |-> "generate_signals", n |-> n,
                               error |-> "ValueError"]
                         ELSE IF ~u.status.tracked
                         THEN [op |-> "generate_signals", n |-> n,
                               error |-> "KeyError"]
                         ELSE [op |-> "generate_signals", n |-> n, error |-> "",
                               type |-> Override(signal_type, u.status.stop_triggered),
                               decision |-> signal_type, price |-> current_price,
                               stop_info |-> TRUE,
                               again |-> RepeatsUpdate(current_price)]
               /\ UNCHANGED <<fixed_vars, strategy_position>>

\* The closes of the bars given to the detector alone: steps of exactly 1%
\* of 1000 up and down.
DetectorCloses == << P(990), P(1000), P(1010) >>

\* The j-th input of n bars over DetectorCloses, numbered as in BarsOf.
DetectorBars(n, j) ==
    [i \in 1..n |->
        DetectorCloses[((j \div Power(Len(DetectorCloses), i - 1))
                          % Len(DetectorCloses)) + 1]]

DetectorInputsOfLen(n) == 0..(Power(Len(DetectorCloses), n) - 1)

\* _detect_signal(_calculate_indicators(market_data)) (lines 37-101) called
\* on its own, as generate_signals and should_exit call it.
MaxDetectorBars == 5

\* What the detector computes on every input explored, tabulated once: the
\* bars, the crossover column of _calculate_indicators and the decision.
DetectorResults ==
    [n \in 0..MaxDetectorBars |->
        [j \in DetectorInputsOfLen(n) |->
            LET c == DetectorBars(n, j)
            IN  [op |-> "_detect_signal", bars |-> c,
                 crossover |-> [i \in 1..n |-> Crossover(c, i)],
                 decision |-> detect_signal(c)]]]

detect(n, j) ==
    /\ ret' = DetectorResults[n][j]
    /\ UNCHANGED <<fixed_vars, mgr_vars, strategy_position, status, history_vars>>

SignalTypes == { "buy", "sell", "hold" }

\* The float a / b <= the float c / d, on reduced fractions with den > 0.
LeFrac(a, b) == a.num * b.den <= b.num * a.den

\* Python's min(a, b): b only if it is strictly smaller.
MinFrac(a, b) == IF LeFrac(a, b) THEN a ELSE b

\* Line 167: (balance * position_size_pct) / price, reduced before the
\* multiplication to stay within TLC's integers.
StrategySize(size_pct, balance, price) ==
    LET f == Frac(balance, price * 1000)
    IN  IF f.den = 0 THEN f ELSE Frac(f.num * size_pct, f.den)

\* Mutant of PositionSize: the strategy's own size, not capped by the risk size.
PositionSize_NoCap(cfg, size_pct, signal_type, balance, price) ==
    IF signal_type # "buy" THEN [error |-> "", size |-> Zero]
    ELSE IF StrategySize(size_pct, balance, price).den = 0
    THEN [error |-> "ZeroDivisionError", size |-> Zero]
    ELSE [error |-> "", size |-> StrategySize(size_pct, balance, price)]

\* calculate_position_size(signal, balance) (lines 163-176): what it returns
\* or raises.
PositionSize(cfg, size_pct, signal_type, balance, price) ==
    IF signal_type # "buy" THEN [error |-> "", size |-> Zero]
    ELSE
      LET strategy_size == StrategySize(size_pct, balance, price)
          risk_size == MaxPositionSize(cfg, balance, price).size
      IN  IF strategy_size.den = 0
          THEN [error |-> "ZeroDivisionError", size |-> Zero]
          ELSE [error |-> "", size |-> MinFrac(strategy_size, risk_size)]

calculate_position_size(signal_type, balance, price) ==
    LET r == PositionSize(config, position_size_pct, signal_type, balance, price)
    IN  /\ ret' = [op |-> "calculate_position_size", type |-> signal_type,
                   balance |-> balance, price |-> price,
                   error |-> r.error, size |-> r.size]
        /\ UNCHANGED <<fixed_vars, mgr_vars, strategy_position, status, history_vars>>

\* Mutant of ExitDecision: only the stop-loss closes the position.
ExitDecision_StopOnly(triggered, signal) == triggered

\* Lines 195-207: exit on a triggered stop, else on the detector's 'sell'.
ExitDecision(triggered, signal) == triggered \/ signal = "sell"

\* should_exit(market_data) (lines 188-207), market_data the j-th input of n
\* bars.  market_data[-1] of an empty list raises IndexError (line 191).
should_exit(n, j) ==
  LET market_data == MarketData[n][j] IN
    IF strategy_position = None
    THEN /\ ret' = [op |-> "should_exit", n |-> n, error |-> "", result |-> FALSE,
                    updated |-> FALSE, decision |-> "hold", price |-> 0]
         /\ UNCHANGED <<fixed_vars, mgr_vars, strategy_position, status, history_vars>>
    ELSE IF Len(market_data) = 0
    THEN /\ ret' = [op |-> "should_exit", n |-> n, error |-> "IndexError"]
         /\ UNCHANGED <<fixed_vars, mgr_vars, strategy_position, status, history_vars>>
    ELSE
      LET current_price == market_data[Len(market_data)]
          u == UpdateOf(config, Mgr, current_price)
          signal == Detected[n][j]
      IN  /\ SetMgr(u.m)
          /\ status' = u.status
          /\ HistoryAfterUpdate(u.status, current_price)
          /\ ret' = IF u.status.error
                    THEN [op |-> "should_exit", n |-> n, error |-> "ValueError"]
                    ELSE [op |-> "should_exit", n |-> n, error |-> "",
                          result |-> ExitDecision(u.status.stop_triggered, signal),
                          updated |-> TRUE, decision |-> signal,
                          price |-> current_price,
                          again |-> RepeatsUpdate(current_price)]
          /\ UNCHANGED <<fixed_vars, strategy_position>>

OrderSides == { "buy", "sell" }

\* Mutant of PositionAfter: a buy while a position is open keeps the open one.
PositionAfter_KeepOpen(current, side, price) ==
    IF side = "buy" THEN (IF current = None THEN Some(price) ELSE current) ELSE None

\* BaseStrategy.update_position (base_strategy.py lines 81-88): the position
\* after the order, which is its entry price or None.
PositionAfter(current, side, price) ==
    IF side = "buy" THEN Some(price) ELSE None

\* update_position(order) (lines 209-221, and base_strategy.py lines 81-88).
update_position(side, price) ==
    /\ strategy_position' = PositionAfter(strategy_position, side, price)
    /\ IF side = "buy"
       THEN /\ SetMgr(StartOf(config, Dict(price)))
            /\ status' = NoStatus
            /\ HistoryAfterStart(price)
       ELSE UNCHANGED <<mgr_vars, status, history_vars>>
    /\ ret' = [op |-> "update_position", side |-> side, price |-> price,
               was_trailing |-> trailing_active]
    /\ UNCHANGED fixed_vars

-----------------------------------------------------------------------------
(* KrakenClient in paper-trading mode, on the symbol BTC/USD: amounts in whole
   BTC, prices and balances in whole USD.  An order keeps the fields the
   balances depend on; its id is its index in paper_orders. *)

MaxOrders == 3

Amounts == { 1, 3 }

\* ticker['last'] as fetch_ticker returns it.
TickerPrices == { 29000, 30000 }

\* The create_order calls made: market orders without a price, limit orders
\* with one.
OrderCalls ==
    { [side |-> sd, amount |-> a, type |-> "market", price |-> None] :
        sd \in OrderSides, a \in Amounts }
    \cup { [side |-> sd, amount |-> a, type |-> "limit", price |-> Some(29000)] :
             sd \in OrderSides, a \in Amounts }

\* Line 135.
ExecutionPrice(order_type, price, last) ==
    IF order_type = "limit" THEN Val(price) ELSE last

\* Mutant of Insufficient: the quote balance of a buy is not checked.
Insufficient_QuoteUnchecked(balance, side, amount, execution_price) ==
    side = "sell" /\ balance.BTC < amount

\* Lines 142-143 and 151-152: the balance does not cover the order.
Insufficient(balance, side, amount, execution_price) ==
    IF side = "buy"
    THEN balance.USD < amount * execution_price
    ELSE balance.BTC < amount

\* Mutant of PaperFill: a sell is credited at the amount, not at its value.
PaperFill_SellAtPar(balance, side, amount, execution_price) ==
    IF side = "buy"
    THEN [USD |-> balance.USD - amount * execution_price,
          BTC |-> balance.BTC + amount]
    ELSE [USD |-> balance.USD + amount,
          BTC |-> balance.BTC - amount]

\* Lines 146-147 and 155-156: the balances after the order is filled.
PaperFill(balance, side, amount, execution_price) ==
    IF side = "buy"
    THEN [USD |-> balance.USD - amount * execution_price,
          BTC |-> balance.BTC + amount]
    ELSE [USD |-> balance.USD + amount * execution_price,
          BTC |-> balance.BTC - amount]

\* What the strategy and its manager hold: no operation of the client
\* changes it.
trading_vars ==
    <<config, position_size_pct, mgr_vars, strategy_position, status, history_vars>>

\* A suspended call: its arguments and, as history, how many orders the
\* client had filled when the call was made.
Suspended(call, seen) == call @@ [seen |-> seen]

\* create_order(symbol, type, side, amount, price) up to the await of line
\* 134: the call is suspended at fetch_ticker.
create_order_begin(call) ==
    /\ Len(paper_orders) + BagCardinality(pending) < MaxOrders
    /\ pending' = pending (+) SetToBag({Suspended(call, Len(paper_orders))})
    /\ UNCHANGED <<trading_vars, ret, paper_balance, paper_orders, state_file>>

\* The rest of _create_paper_order (lines 135-177) once fetch_ticker has
\* returned last: no await in between.
create_order_resume(call, last) ==
    /\ BagIn(call, pending)
    /\ pending' = pending (-) SetToBag({call})
    /\ LET execution_price == ExecutionPrice(call.type, call.price, last)
       IN  IF Insufficient(paper_balance, call.side, call.amount, execution_price)
           THEN /\ ret' = [op |-> "create_order", error |-> "ValueError",
                           call |-> call]
                /\ UNCHANGED <<paper_balance, paper_orders, state_file>>
           ELSE LET balance == PaperFill(paper_balance, call.side, call.amount,
                                         execution_price)
                    order == [id |-> Len(paper_orders), side |-> call.side,
                              amount |-> call.amount, price |-> execution_price]
                IN  /\ paper_balance' = balance
                    /\ paper_orders' = Append(paper_orders, order)
                    /\ state_file' = Some([balance |-> balance,
                                           orders |-> Append(paper_orders, order)])
                    /\ ret' = [op |-> "create_order", error |-> "",
                               call |-> call]
    /\ UNCHANGED trading_vars

\* fetch_balance() in paper-trading mode (lines 183-191): the balances are
\* returned as free/used/total; nothing is assigned and nothing is saved.
fetch_balance ==
    /\ ret' = [op |-> "fetch_balance", total |-> paper_balance]
    /\ UNCHANGED <<trading_vars, client_vars>>

-----------------------------------------------------------------------------
(* Specifications *)

\* The position dicts start_position_tracking is called with: with a price,
\* and the empty one.
StartPositions == { EmptyDict } \cup { Dict(e) : e \in Entries }

\* The price argument of _calculate_fixed_stop_loss: absent, or a price.
OptionalPrices == { None } \cup { Some(e) : e \in Entries }

\* The StopLossManager called directly, as its tests do.
Next ==
    \/ \E pos \in StartPositions : start_position_tracking(pos)
    \/ \E p \in OptionalPrices : fixed_stop_loss(p)
    \/ \E p \in UpdatePrices : update(p)
    \/ \E b \in Balances, p \in SizingPrices : calculate_max_position_size(b, p)

Spec == Init /\ [][Next]_vars

\* What generate_signals and should_exit read of their bars: how many there
\* are, the latest close and the detector's decision.
LatestClose(n, j) == IF n = 0 THEN 0 ELSE MarketData[n][j][n]

\* Inputs of n bars that agree in these take the same steps; the first of
\* each kind is explored.
DistinctInputs ==
    [n \in 0..MaxBars |->
        { j \in InputsOfLen(n) :
            \A k \in InputsOfLen(n) :
                k < j => \/ LatestClose(n, k) # LatestClose(n, j)
                         \/ Detected[n][k] # Detected[n][j] }]

\* The strategy's operations, which drive the manager it owns.
StrategyNext ==
    \/ \E n \in 0..MaxBars : \E j \in DistinctInputs[n] : generate_signals(n, j)
    \/ \E s \in OrderSides, e \in Entries : update_position(s, e)
    \/ \E n \in 0..MaxBars : \E j \in DistinctInputs[n] : should_exit(n, j)
    \/ \E t \in SignalTypes, b \in Balances, p \in SizingPrices :
          calculate_position_size(t, b, p)
    \/ \E b \in Balances, p \in SizingPrices : calculate_max_position_size(b, p)

StrategySpec == Init /\ [][StrategyNext]_vars

\* The detector alone, on every history of at most MaxDetectorBars bars; the
\* crossover column of _calculate_indicators is kept with the decision.
DetectorNext ==
    \E n \in 0..MaxDetectorBars : \E j \in DetectorInputsOfLen(n) : detect(n, j)

\* The detector reads the windows only: one configuration of the rest is
\* enough.
DetectorInit ==
    /\ Init
    /\ config = StopLossConfig(20, 20, Some(15), Some(10))
    /\ position_size_pct = 100

DetectorSpec == DetectorInit /\ [][DetectorNext]_vars

\* The paper-trading client, its create_order calls interleaved at the await.
PaperNext ==
    \/ \E call \in OrderCalls : create_order_begin(call)
    \/ \E call \in OrderCalls, seen \in 0..MaxOrders, last \in TickerPrices :
            create_order_resume(Suspended(call, seen), last)
    \/ fetch_balance

\* The client has no part in the strategy's configuration: one is enough.
PaperInit ==
    /\ Init
    /\ config = StopLossConfig(20, 20, Some(15), Some(10))
    /\ position_size_pct = 100

PaperSpec == PaperInit /\ [][PaperNext]_vars

-----------------------------------------------------------------------------
(* Steps *)

\* This step called StopLossManager.update on a tracked position.
UpdateStep ==
    /\ position # EmptyDict
    /\ \/ ret'.op = "update"
       \/ ret'.op = "generate_signals" /\ ret'.error = "" /\ ret'.stop_info
       \/ ret'.op = "should_exit" /\ ret'.error = "" /\ ret'.updated

\* This step started the tracking of a position.
StartStep ==
    \/ ret'.op = "start_position_tracking"
    \/ ret'.op = "update_position" /\ ret'.side = "buy"

FixedStopOf(pos) == calculate_fixed_stop_loss(config, PriceOf(pos))

-----------------------------------------------------------------------------
(* Claims *)

\* C1: for one tracked position the stop price never decreases across
\* successive update(price) calls: neither the stop price the manager holds
\* nor the one update returns, whatever the prices and the configuration.
C1_StopNeverDecreases ==
    [][UpdateStep =>
         /\ stop_loss_price' >= stop_loss_price
         /\ status'.tracked /\ status'.stop_price >= stop_loss_price
         /\ status.tracked => status'.stop_price >= status.stop_price]_vars

\* C1 witness: trailing has raised the stop above the fixed stop, and a later
\* update at a price below the stop has been made.
C1_Witness ==
    /\ position # EmptyDict
    /\ trailing_active
    /\ stop_loss_price > FixedStopOf(position)
    /\ status.tracked /\ status.stop_triggered
    /\ ret.op = "update" /\ ret.price < stop_loss_price

\* C2: for one tracked position highest_price is non-decreasing across
\* successive update(price) calls, and after each update (and after
\* start_position_tracking) it equals the maximum of the entry price and all
\* prices passed to update since the tracking started.
C2_HighestIsRunningMax ==
    [][/\ position' # EmptyDict => highest_price' = max_seen'
       /\ UpdateStep => /\ highest_price' >= highest_price
                        /\ status'.highest_price = max_seen']_vars

\* C2 witness: the peak is above the entry and the latest update was made at
\* a price below the peak.
C2_Witness ==
    /\ position # EmptyDict
    /\ highest_price > PriceOf(position)
    /\ ret.op = "update" /\ ret.price < highest_price
    /\ status.tracked /\ status.highest_price = highest_price

\* C3: once trailing_active is true for a tracked position it stays true
\* after every later call, whatever the price, until tracking is started for
\* a new position.
C3_TrailingLatch ==
    [][(trailing_active /\ ~StartStep) =>
         /\ trailing_active'
         /\ UpdateStep => status'.trailing_active]_vars

\* C3 witness: trailing is active after an update at a price at which the
\* profit is below the activation threshold.
C3_Witness ==
    /\ position # EmptyDict
    /\ trailing_active
    /\ config.trailing_activation_pct # None
    /\ ret.op = "update"
    /\ ~ProfitReached(config, PriceOf(position), ret.price)
    /\ status.trailing_active

\* C4 as stated: once an update has reported stop_triggered, every later
\* update on the same tracked position reports stop_triggered, whatever the
\* price (stated for the configurations with a positive fixed percentage).
C4_TriggeredIsTerminal ==
    [][(triggered_at # None /\ UpdateStep /\ ~StartStep
          /\ config.fixed_stop_loss_pct > 0) =>
         status'.stop_triggered]_vars

\* C4 amended: once an update has reported stop_triggered, every later update
\* on the same tracked position whose price is at or below the stop price
\* that update returned reports stop_triggered too.
C4_TriggeredAtOrBelowStop ==
    [][(triggered_at # None /\ UpdateStep /\ ~StartStep
          /\ ret'.price <= Val(triggered_at)) =>
         status'.stop_triggered]_vars

\* C4 witness: a stop was triggered, the stop has since been raised by
\* trailing, and the latest update, at or below the stop price first
\* triggered, reports the trigger again.
C4_Witness ==
    /\ triggered_at # None
    /\ stop_loss_price > Val(triggered_at)
    /\ ret.op = "update" /\ ret.price <= Val(triggered_at)
    /\ status.stop_triggered

\* C5: when the strategy has an open position and generate_signals is called
\* with at least long_window + 1 bars, a stop-loss update on the latest close
\* that reports triggered makes the returned signal type 'sell', whatever the
\* crossover/trend decision was.
C5_StopOverridesDecision ==
    (/\ ret.op = "generate_signals"
     /\ ret.error = ""
     /\ ret.stop_info
     /\ status.stop_triggered)
    => ret.type = "sell"

\* C5 witness: the detector decided 'buy', the stop was triggered on the
\* latest close, and the signal returned is 'sell'.
C5_Witness ==
    /\ ret.op = "generate_signals"
    /\ ret.error = ""
    /\ ret.stop_info
    /\ status.stop_triggered
    /\ status.stop_price >= ret.price
    /\ ret.decision = "buy"
    /\ ret.type = "sell"

\* The distance price - fixedStop(price) and the loss budget
\* balance * max_loss_pct / 100 of the latest sizing call.
StopDistance == ret.price - calculate_fixed_stop_loss(config, ret.price)

LossBudget == Pct(ret.balance, config.max_loss_pct)

TestConfig == StopLossConfig(20, 20, Some(15), Some(10))

\* C6: for every balance >= 0 and price > 0 the size s returned by
\* calculate_max_position_size(balance, price) satisfies
\* s * (price - fixedStop(price)) <= balance * max_loss_pct / 100, with
\* equality when the stop distance is positive; with fixed = 2, maxLoss = 2,
\* balance 10000 and price 1000 the size is 10.
C6_SizeWithinLossBudget ==
    (ret.op = "calculate_max_position_size" /\ ret.balance >= 0 /\ ret.price > 0)
    => /\ ret.size.den > 0
       /\ ret.size.num * StopDistance <= LossBudget * ret.size.den
       /\ StopDistance > 0 =>
            ret.size.num * StopDistance = LossBudget * ret.size.den
       /\ (config = TestConfig /\ ret.balance = P(10000) /\ ret.price = P(1000))
            => ret.size = [num |-> 10, den |-> 1]

\* C6 witness: a positive size was returned for a positive balance and price.
C6_Witness ==
    /\ ret.op = "calculate_max_position_size"
    /\ ret.balance > 0 /\ ret.price > 0
    /\ StopDistance > 0
    /\ ret.size.num > 0
    /\ ret.divided

\* C7: calculate_max_position_size returns 0 whenever the stop distance
\* price - fixedStop(price) is zero or negative, and then performs no division.
C7_ZeroSizeWithoutStopDistance ==
    (ret.op = "calculate_max_position_size" /\ StopDistance <= 0)
    => (ret.size = Zero /\ ~ret.divided)

\* C7 witness: a call with a positive balance and price whose stop distance
\* is exactly zero returned 0.
C7_Witness ==
    /\ ret.op = "calculate_max_position_size"
    /\ ret.balance > 0 /\ ret.price > 0
    /\ StopDistance = 0
    /\ ret.size = Zero

\* C8: start_position_tracking(position) with entry price P resets the state
\* whatever the state before: highest_price = P, trailing_active = false,
\* stop price = P * (1 - fixed_stop_loss_pct / 100), which is the value
\* returned.
C8_StartResets ==
    (ret.op = "start_position_tracking" /\ ret.error = "")
    => /\ position # EmptyDict
       /\ highest_price = PriceOf(position)
       /\ trailing_active = FALSE
       /\ stop_loss_price * 1000
            = PriceOf(position) * (1000 - config.fixed_stop_loss_pct)
       /\ ret.value = stop_loss_price

\* C8 witness: tracking was started on a manager whose previous position had
\* trailing active.
C8_Witness ==
    /\ ret.op = "start_position_tracking"
    /\ ret.was_trailing
    /\ ~trailing_active
    /\ highest_price = PriceOf(position)

\* The manager state of the C9 scenario: at the start, and after each update.
C9_Opened == StartOf(TestConfig, Dict(P(1000)))

C9_After1015 ==
    [position |-> Dict(P(1000)), highest_price |-> P(1015),
     stop_loss_price |-> 999775, trailing_active |-> TRUE]

C9_After1020 ==
    [position |-> Dict(P(1000)), highest_price |-> P(1020),
     stop_loss_price |-> 1004700, trailing_active |-> TRUE]

\* C9: with fixed = 2.0, trailing = 1.5, activation = 1.0, maxLoss = 2.0 and a
\* position opened at 1000: update(1015) returns trailing_active = true and
\* stop price 999.775; then update(1020) returns stop price 1004.7; then
\* update(1004) returns stop_triggered = true.
C9_TrailingScenario ==
    [][(config = TestConfig /\ ret'.op = "update") =>
         /\ (Mgr = C9_Opened /\ ret'.price = P(1015)) =>
              /\ status'.trailing_active
              /\ status'.stop_price = 999775
              /\ Mgr' = C9_After1015
         /\ (Mgr = C9_After1015 /\ ret'.price = P(1020)) =>
              /\ status'.stop_price = 1004700
              /\ Mgr' = C9_After1020
         /\ (Mgr = C9_After1020 /\ ret'.price = P(1004)) =>
              status'.stop_triggered]_vars

\* C9 witness: the state at the end of the scenario.
C9_Witness ==
    /\ config = TestConfig
    /\ Mgr = C9_After1020
    /\ max_seen = P(1020)
    /\ ret.op = "update" /\ ret.price = P(1004)
    /\ status.stop_triggered
    /\ status.stop_price = 1004700

\* C10: if trailing_stop_loss_pct or trailing_activation_pct is not
\* configured, then through every sequence of update calls on a tracked
\* position trailing_active stays false and the stop price stays the initial
\* fixed stop entry * (1 - fixed_stop_loss_pct / 100); with fixed = 2.0 only
\* and entry 1000, update(1015) gives trailing_active = false and stop 980.
C10_NoTrailingWithoutBothPcts ==
    (/\ \/ config.trailing_stop_loss_pct = None
        \/ config.trailing_activation_pct = None
     /\ position # EmptyDict)
    => /\ ~trailing_active
       /\ stop_loss_price = FixedStopOf(position)
       /\ status.tracked =>
            /\ ~status.trailing_active
            /\ status.stop_price = FixedStopOf(position)
       /\ (/\ config = StopLossConfig(20, 20, None, None)
           /\ position = Dict(P(1000))
           /\ status.tracked)
          => status.stop_price = 980000

\* C10 witness: only the trailing percentage is configured, and an update at
\* a price 2% above the entry left trailing inactive and the stop where it was.
C10_Witness ==
    /\ config.trailing_stop_loss_pct # None
    /\ config.trailing_activation_pct = None
    /\ position = Dict(P(1000))
    /\ ret.op = "update" /\ ret.price = P(1020)
    /\ status.tracked /\ ~status.trailing_active
    /\ status.stop_price = 980000

\* balance * position_size_pct / price of the last call; balances are whole
\* units, so the product is taken on the units.
C11_StrategySize ==
    Frac((ret.balance \div 1000) * position_size_pct, ret.price)

\* C11: calculate_position_size(signal, balance) returns
\* min(balance * position_size_pct / price, calculate_max_position_size(balance,
\* price)) when the signal type is 'buy' (price > 0) and 0 for every other
\* type; so the size returned never exceeds the risk-budget size.
C11_PositionSizeIsCappedMin ==
    (ret.op = "calculate_position_size" /\ ret.price > 0)
    => LET strategy_size == C11_StrategySize
           risk_size == MaxPositionSize(config, ret.balance, ret.price).size
       IN  /\ ret.error = ""
           /\ ret.type # "buy" => ret.size = Zero
           /\ ret.type = "buy" =>
                /\ LeFrac(ret.size, risk_size)
                /\ LeFrac(ret.size, strategy_size)
                /\ ret.size \in {strategy_size, risk_size}

\* C11 witness: a buy signal whose strategy size exceeds the risk size: the
\* risk size is returned.
C11_Witness ==
    /\ ret.op = "calculate_position_size"
    /\ ret.type = "buy"
    /\ ret.price > 0 /\ ret.balance > 0
    /\ ret.size = MaxPositionSize(config, ret.balance, ret.price).size
    /\ ret.size.num > 0
    /\ ret.size # C11_StrategySize

\* C12: a should_exit(bars) that returns, returns true exactly when a position
\* is open and either the stop-loss update on the latest close reports
\* triggered (the close is at or below the stop price of that update) or the
\* decision on the bars is 'sell'; with no open position it returns false and
\* leaves the stop-loss state untouched.
C12_ShouldExit ==
    [][ (ret'.op = "should_exit" /\ ret'.error = "")
        => /\ ret'.result
                = (/\ strategy_position # None
                   /\ \/ status'.stop_triggered
                      \/ ret'.decision = "sell")
           /\ strategy_position # None
                => /\ ret'.updated
                   /\ status'.stop_triggered
                        = (position # EmptyDict /\ ret'.price <= stop_loss_price')
           /\ strategy_position = None
                => /\ ~ret'.result
                   /\ UNCHANGED <<mgr_vars, status>> ]_vars

\* C12 witness: with a position open, the stop not triggered and the decision
\* 'sell', should_exit returned true.
C12_Witness ==
    /\ ret.op = "should_exit"
    /\ ret.error = ""
    /\ strategy_position # None
    /\ ~status.stop_triggered
    /\ ret.decision = "sell"
    /\ ret.result

\* C13: generate_signals called with fewer than long_window + 1 bars fails
\* with the insufficient-data ValueError before any stop-loss update: the
\* strategy position and the manager's state are unchanged by the call, also
\* when a position is open.
C13_InsufficientDataChangesNothing ==
    [][ (ret'.op = "generate_signals" /\ ret'.n < long_window + 1)
        => /\ ret'.error = "ValueError"
           /\ UNCHANGED <<mgr_vars, strategy_position, status>> ]_vars

\* C13 witness: the call failed on long_window bars while a position was open
\* and tracked, after an update that had raised the highest price.
C13_Witness ==
    /\ ret.op = "generate_signals"
    /\ ret.n = long_window
    /\ ret.error = "ValueError"
    /\ strategy_position # None
    /\ position # EmptyDict
    /\ highest_price > PriceOf(position)

\* C14: should_exit never raises on sparse history: for every bar sequence
\* shorter than long_window + 1, the empty one included, with or without an
\* open position, it returns a boolean and the decision part is 'hold'.
C14_ShouldExitNeverRaises ==
    (ret.op = "should_exit" /\ ret.n < long_window + 1)
    => /\ ret.error = ""
       /\ ret.decision = "hold"

\* C15: after any sequence of update_position(order) calls the strategy has an
\* open position exactly when the last order was a buy, it is the one position
\* of that order, and whenever a position is open the StopLossManager tracks
\* it with the same entry price as the strategy's position.
C15_OnePositionTrackedAtEntry ==
    [][ /\ ret'.op = "update_position"
            => /\ (strategy_position' # None) = (ret'.side = "buy")
               /\ ret'.side = "buy" => strategy_position' = Some(ret'.price)
        /\ ret'.op # "update_position" => UNCHANGED strategy_position
        /\ strategy_position' # None
            => position' = Dict(Val(strategy_position')) ]_vars

\* C15 witness: a second buy replaced the open position, and the manager
\* tracks the new entry price after having followed the first one upwards.
C15_Witness ==
    /\ ret.op = "update_position"
    /\ ret.side = "buy"
    /\ ret.price = P(1010)
    /\ strategy_position = Some(P(1010))
    /\ position = Dict(P(1010))
    /\ highest_price = P(1010)
    /\ status = NoStatus
    /\ max_seen = P(1010)
    /\ ret.was_trailing

\* C16: the stop-loss state is discarded when the position is closed: while
\* the strategy has no open position the manager tracks nothing, so that
\* update(price) returns the neutral status until the next buy.
C16_ClosedPositionIsUntracked ==
    strategy_position = None => position = EmptyDict

\* C17: on a manager that tracks no position, update(price) returns stop price
\* 0 and stop_triggered = false for every price and changes none of
\* highest_price, stop price and trailing_active.
C17_UntrackedUpdateIsNeutral ==
    [][ (position = EmptyDict /\ ret'.op = "update")
        => /\ status'.valid
           /\ status'.stop_price = 0
           /\ ~status'.stop_triggered
           /\ UNCHANGED mgr_vars ]_vars

\* C17 witness: update at a price above the highest price left behind by an
\* earlier position returned the neutral status.
C17_Witness ==
    /\ ret.op = "update"
    /\ position = EmptyDict
    /\ status.valid /\ ~status.tracked
    /\ highest_price > 0
    /\ ret.price > highest_price
    /\ stop_loss_price > 0

\* C18: the fixed-stop computation called with no price on a manager without
\* a position, and start_position_tracking called with an empty position,
\* both fail with the ValueError of the guard.
C18_InvalidStateWithoutPrice ==
    /\ (ret.op = "_calculate_fixed_stop_loss" /\ ret.price = None /\ ~ret.tracked)
        => ret.error = "ValueError"
    /\ (ret.op = "start_position_tracking" /\ position = EmptyDict)
        => ret.error = "ValueError"

\* |trend| > 0.01 strictly at row i, trend the relative change of the close
\* over short_window bars.
C19_StrictlyAboveOnePct(c, i) ==
    Abs(TrendDelta(c, i)) * 100 > c[i - short_window]

\* C19: the detector's decision on the latest fully-defined bar is 'hold' if
\* fewer than long_window + 1 bars are given; else 'buy' if crossover > 0 and
\* 'sell' if crossover < 0; else, if |trend| > 0.01 strictly, 'buy' when trend
\* and maDiff are both positive and 'sell' when both are negative; 'hold' in
\* every other case, |trend| exactly 0.01 included.
C19_DetectorDecision ==
    ret.op = "_detect_signal"
    => LET c == ret.bars
       IN  ret.decision =
             IF Len(c) < long_window + 1 THEN "hold"
             ELSE LET i == LastRow(c)
                  IN  IF Crossover(c, i) > 0 THEN "buy"
                      ELSE IF Crossover(c, i) < 0 THEN "sell"
                      ELSE IF /\ C19_StrictlyAboveOnePct(c, i)
                              /\ TrendDelta(c, i) > 0
                              /\ MaDiff(c, i) > 0
                      THEN "buy"
                      ELSE IF /\ C19_StrictlyAboveOnePct(c, i)
                              /\ TrendDelta(c, i) < 0
                              /\ MaDiff(c, i) < 0
                      THEN "sell"
                      ELSE "hold"

\* What the order o adds to the balance of currency c.
C20_Delta(o, c) ==
    IF c = "USD"
    THEN (IF o.side = "buy" THEN 0 - o.amount * o.price ELSE o.amount * o.price)
    ELSE (IF o.side = "buy" THEN o.amount ELSE 0 - o.amount)

RECURSIVE C20_SumOfDeltas(_, _)
C20_SumOfDeltas(orders, c) ==
    IF orders = << >> THEN 0
    ELSE C20_Delta(Head(orders), c) + C20_SumOfDeltas(Tail(orders), c)

\* Each balance is its initial value plus the deltas of the orders filled.
C20_BalanceIsInitialPlusDeltas ==
    /\ paper_balance.USD = InitialBalance.USD + C20_SumOfDeltas(paper_orders, "USD")
    /\ paper_balance.BTC = InitialBalance.BTC + C20_SumOfDeltas(paper_orders, "BTC")

\* From 100000 USD: buy 1 BTC at 29000, then sell 1 BTC at 30000.
C20_Example ==
    /\ Len(paper_orders) = 2
    /\ paper_orders[1].side = "buy" /\ paper_orders[1].amount = 1
    /\ paper_orders[1].price = 29000
    /\ paper_orders[2].side = "sell" /\ paper_orders[2].amount = 1
    /\ paper_orders[2].price = 30000

\* C20: a successful paper buy of amount a at execution price p decreases the
\* quote balance by a * p and increases the base balance by a, a successful
\* sell does the reverse, and nothing else changes the balances; so each
\* balance is its initial value plus the sum of these deltas (100000 USD, buy
\* 1 BTC at 29000 then sell 1 BTC at 30000: 0 BTC and 101000 USD).
C20_PaperOrderDeltas ==
    [][ /\ Len(paper_orders') = Len(paper_orders) + 1
            => LET o == paper_orders'[Len(paper_orders')]
               IN  /\ SubSeq(paper_orders', 1, Len(paper_orders)) = paper_orders
                   /\ o.side = "buy"
                        => /\ paper_balance'.USD = paper_balance.USD - o.amount * o.price
                           /\ paper_balance'.BTC = paper_balance.BTC + o.amount
                   /\ o.side = "sell"
                        => /\ paper_balance'.USD = paper_balance.USD + o.amount * o.price
                           /\ paper_balance'.BTC = paper_balance.BTC - o.amount
        /\ Len(paper_orders') # Len(paper_orders) + 1
            => UNCHANGED <<paper_balance, paper_orders>>
        /\ C20_BalanceIsInitialPlusDeltas'
        /\ C20_Example' => paper_balance' = [USD |-> 101000, BTC |-> 0] ]_vars

\* C20 witness: the two orders of the example were filled.
C20_Witness ==
    /\ C20_Example
    /\ ret.op = "create_order" /\ ret.error = ""
    /\ paper_balance = [USD |-> 101000, BTC |-> 0]

\* C21: after a paper-trading client is constructed with no state file
\* present and fetch_balance is called with no order placed, the state file
\* exists and holds a 'balance' and an 'orders' entry.
C21_StateFileAfterFetchBalance ==
    (/\ ret.op = "fetch_balance"
     /\ paper_orders = << >>
     /\ pending = EmptyBag)
    => /\ state_file # None
       /\ Val(state_file).balance = paper_balance
       /\ Val(state_file).orders = paper_orders

\* C22: for a tracked position, update(price) reports stop_triggered = true
\* if and only if price <= the stop price returned by that same call, which is
\* the stop price after any trailing adjustment made in that call.
C22_TriggeredIffAtOrBelowReturnedStop ==
    [][UpdateStep =>
         /\ status'.tracked
         /\ status'.stop_price = stop_loss_price'
         /\ status'.stop_triggered = (ret'.price <= status'.stop_price)]_vars

\* C22 witness: an update above the fixed stop, but below the stop price
\* which trailing had raised, reported the trigger.
C22_Witness ==
    /\ ret.op = "update"
    /\ status.tracked
    /\ trailing_active
    /\ ret.price > FixedStopOf(position)
    /\ ret.price <= status.stop_price
    /\ status.stop_triggered

\* (price - entry) / entry * 100 >= trailing_activation_pct, the percentage
\* in tenths of a percent.
C23_ActivationProfit(entry, price) ==
    (price - entry) * 1000 >= entry * Val(config.trailing_activation_pct)

\* C23: in an update(price) call trailing switches from inactive to active
\* exactly when price is strictly above the previous highest_price, both
\* trailing percentages are configured and the profit over the entry is at
\* least trailing_activation_pct; every other update leaves trailing_active
\* unchanged.
C23_ActivationExactly ==
    [][UpdateStep =>
         LET activates ==
               /\ ~trailing_active
               /\ ret'.price > highest_price
               /\ config.trailing_stop_loss_pct # None
               /\ config.trailing_activation_pct # None
               /\ C23_ActivationProfit(PriceOf(position), ret'.price)
         IN  /\ activates => trailing_active'
             /\ ~activates => trailing_active' = trailing_active]_vars

\* C23 witness: an update at a profit of exactly the activation percentage
\* activated trailing.
C23_Witness ==
    /\ ret.op = "update"
    /\ position # EmptyDict
    /\ config.trailing_activation_pct # None
    /\ (ret.price - PriceOf(position)) * 1000
         = PriceOf(position) * Val(config.trailing_activation_pct)
    /\ highest_price = ret.price
    /\ max_seen = ret.price
    /\ status.trailing_active

\* highest_price * (1 - trailing_stop_loss_pct / 100), times 1000.
C24_TrailingStopTimes1000 ==
    highest_price * (1000 - Val(config.trailing_stop_loss_pct))

\* C24: whenever trailing is active at the end of an update(price) call, the
\* stop price is max(stop price before the call, highest_price * (1 -
\* trailing_stop_loss_pct / 100)), highest_price being the peak since the
\* position opened; hence while trailing is active the stop price is at
\* least highest_price * (1 - trailing_stop_loss_pct / 100).
C24_TrailingStopIsMax ==
    [][ /\ (UpdateStep /\ trailing_active')
            => /\ highest_price' = max_seen'
               /\ stop_loss_price' >= stop_loss_price
               /\ stop_loss_price' * 1000 >= C24_TrailingStopTimes1000'
               /\ \/ stop_loss_price' = stop_loss_price
                  \/ stop_loss_price' * 1000 = C24_TrailingStopTimes1000'
        /\ (trailing_active' /\ position' # EmptyDict)
            => stop_loss_price' * 1000 >= C24_TrailingStopTimes1000' ]_vars

\* C24 witness: with trailing active, an update below the peak kept the stop
\* computed from the peak.
C24_Witness ==
    /\ ret.op = "update"
    /\ status.tracked /\ status.trailing_active
    /\ ret.price < highest_price
    /\ ret.price > stop_loss_price
    /\ stop_loss_price * 1000 = C24_TrailingStopTimes1000
    /\ stop_loss_price > FixedStopOf(position)

\* C25: the crossover indicator at bar i is nonzero exactly where the sign of
\* maDiff differs from its sign at bar i-1, +1 when the short average has
\* crossed above the long one and -1 when it has crossed below, 0 elsewhere;
\* a crossing in which maDiff is exactly 0 on the bar in between is reported
\* at the bar where the flip completes.
C25_CrossoverAtSignFlip ==
    ret.op = "_detect_signal"
    => LET c == ret.bars
       IN  \A i \in 1..Len(c) :
             /\ (i >= 2 /\ MaDiffDefined(i) /\ MaDiffDefined(i - 1)
                   /\ MaDiff(c, i) # 0 /\ MaDiff(c, i - 1) # 0)
                  => ret.crossover[i]
                       = IF Sgn(MaDiff(c, i)) # Sgn(MaDiff(c, i - 1))
                         THEN Sgn(MaDiff(c, i)) ELSE 0
             /\ (i >= 3 /\ MaDiffDefined(i) /\ MaDiffDefined(i - 2)
                   /\ MaDiff(c, i - 1) = 0
                   /\ Sgn(MaDiff(c, i)) * Sgn(MaDiff(c, i - 2)) < 0)
                  => ret.crossover[i] = Sgn(MaDiff(c, i))

\* C26: at the first bar where maDiff is defined (row long_window, which has
\* no defined previous maDiff) and at every earlier bar the crossover
\* indicator is 0, whatever the sign of maDiff there.
C26_NoCrossoverBeforeSecondMaDiff ==
    ret.op = "_detect_signal"
    => \A i \in 1..Len(ret.bars) : i <= long_window => ret.crossover[i] = 0

\* C26 witness: maDiff is negative at its first bar, where no crossover is
\* reported, and the crossing above at the next bar is.
C26_Witness ==
    /\ ret.op = "_detect_signal"
    /\ Len(ret.bars) = long_window + 1
    /\ MaDiff(ret.bars, long_window) < 0
    /\ ret.crossover[long_window] = 0
    /\ ret.crossover[long_window + 1] = 1

\* C27: the stop-loss state (highest_price, stop price, trailing_active,
\* tracked position) is changed only by update and start_position_tracking:
\* calculate_max_position_size, calculate_position_size and update_position
\* with a sell order leave all four unchanged, and calculate_max_position_size
\* gives the result its arguments and the configuration determine, whether or
\* not a position is tracked.
C27_OnlyUpdateAndStartChangeStopState ==
    [][ /\ (~UpdateStep /\ ~StartStep) => UNCHANGED mgr_vars
        /\ (\/ ret'.op = "calculate_max_position_size"
            \/ ret'.op = "calculate_position_size"
            \/ ret'.op = "update_position" /\ ret'.side = "sell")
            => UNCHANGED mgr_vars
        /\ ret'.op = "calculate_max_position_size"
            => LET dist == ret'.price
                             - calculate_fixed_stop_loss(config, ret'.price)
                   budget == Pct(ret'.balance, config.max_loss_pct)
               IN  ret'.size = IF dist > 0 THEN Frac(budget, dist) ELSE Zero ]_vars

\* C27 witness: calculate_max_position_size returned a size while a position
\* was tracked whose stop trailing had raised above the price asked about.
C27_Witness ==
    /\ ret.op = "calculate_max_position_size"
    /\ ret.size.num > 0
    /\ position # EmptyDict
    /\ stop_loss_price > ret.price
    /\ trailing_active
    /\ stop_loss_price > FixedStopOf(position)
    /\ strategy_position # None

\* C28: in every state reachable through start_position_tracking and update
\* calls, trailing_active = true implies that trailing_stop_loss_pct and
\* trailing_activation_pct are both configured; hence no update raises the
\* ValueError of the trailing-stop computation.
C28_TrailingOnlyWhenConfigured ==
    /\ trailing_active
        => /\ config.trailing_stop_loss_pct # None
           /\ config.trailing_activation_pct # None
    /\ ~status.error
    /\ ret.op = "update" => status.valid

\* C28 witness: without a trailing percentage, an update at a new high whose
\* profit reaches the configured activation percentage left trailing
\* inactive and returned a status.
C28_Witness ==
    /\ config.trailing_stop_loss_pct = None
    /\ config.trailing_activation_pct # None
    /\ ret.op = "update"
    /\ position # EmptyDict
    /\ highest_price = ret.price
    /\ (ret.price - PriceOf(position)) * 1000
         >= PriceOf(position) * Val(config.trailing_activation_pct)
    /\ ~trailing_active
    /\ status.tracked

\* C29: update is idempotent in the price: for a tracked position, an
\* update(p) that follows an update(p) leaves highest_price, the stop price
\* and trailing_active as they are and returns the same status; so a
\* generate_signals after a should_exit on bars with the same latest close
\* leaves the stop-loss state of the single evaluation.
C29_UpdateIdempotent ==
    [][ (/\ position # EmptyDict
         /\ status.tracked
         /\ \/ ret.op = "update"
            \/ ret.op = "generate_signals" /\ ret.error = "" /\ ret.stop_info
            \/ ret.op = "should_exit" /\ ret.error = "" /\ ret.updated
         /\ UpdateStep
         /\ ret'.price = ret.price)
        => /\ UNCHANGED mgr_vars
           /\ status' = status ]_vars

\* C29 witness: a generate_signals that followed an update, made by the
\* strategy at the same latest close, which had raised the highest price and
\* activated trailing.
C29_Witness ==
    /\ ret.op = "generate_signals"
    /\ ret.error = ""
    /\ ret.stop_info
    /\ ret.again
    /\ highest_price = ret.price
    /\ highest_price > PriceOf(position)
    /\ trailing_active
    /\ stop_loss_price > FixedStopOf(position)

\* The precondition of C30: a tracked position, a positive fixed percentage
\* and a positive trailing percentage (entry prices are positive).
C30_PositivePcts ==
    /\ position # EmptyDict
    /\ PriceOf(position) > 0
    /\ config.fixed_stop_loss_pct > 0
    /\ config.trailing_stop_loss_pct # None
    /\ Val(config.trailing_stop_loss_pct) > 0

\* C30: for a tracked position with entry price > 0 and positive fixed and
\* trailing percentages, the stop price is strictly below highest_price and
\* at least the initial fixed stop entry * (1 - fixed_stop_loss_pct / 100);
\* so an update(price) that sets a new highest_price never reports
\* stop_triggered.
C30_StopBelowHighest ==
    [][ C30_PositivePcts'
        => /\ stop_loss_price' < highest_price'
           /\ stop_loss_price' * 1000
                >= PriceOf(position') * (1000 - config.fixed_stop_loss_pct)
           /\ (UpdateStep /\ highest_price' > highest_price)
                => ~status'.stop_triggered ]_vars

\* C30 witness: an update set a new highest price with trailing active, the
\* stop raised above the fixed stop, and reported no trigger.
C30_Witness ==
    /\ C30_PositivePcts
    /\ ret.op = "update"
    /\ highest_price = ret.price
    /\ highest_price > PriceOf(position)
    /\ trailing_active
    /\ stop_loss_price > FixedStopOf(position)
    /\ stop_loss_price < highest_price
    /\ ~status.stop_triggered
    /\ ~ret.again

\* Every order's id is its own: no two orders of the list share one.
C31_DistinctIds(orders) ==
    \A i, j \in 1..Len(orders) : i # j => orders[i].id # orders[j].id

\* The suspended call a step resumes, if the step resumes one.
C31_Resumed(before, after) ==
    { c \in BagToSet(before) : after = before (-) SetToBag({c}) }

====
